---- MODULE Spec2Model ----
(***************************************************************************)
(* Model of bluenoisers (src/src/lib.rs): the background grid, the         *)
(* hyperspherical offset sampler and the BlueNoiseIterator state machine.  *)
(*                                                                         *)
(* Geometry.  Coordinates, extents, radii and min_distance are integers    *)
(* counted in lattice steps; `unit` lattice steps make 1.0, so the f64     *)
(* value of min_distance is min_distance / unit.  cell_size is             *)
(* min_distance / sqrt(D); every floor or ceiling the code takes of a      *)
(* quotient by cell_size is computed exactly by comparing squares.         *)
(* Angles are drawn from a table of angles of [0, 2*pi) whose sine and     *)
(* cosine are rational; a draw is kept when the offset it gives lies on    *)
(* the lattice.  Rounding of f64 arithmetic is not modelled.               *)
(***************************************************************************)
EXTENDS Integers, Sequences, FiniteSets, TLC

VARIABLES
    dimensions,     \* BlueNoiseIterator.dimensions / BackgroundGrid.dimensions
    min_distance,   \* BlueNoiseIterator.min_distance (lattice steps)
    unit,           \* lattice steps per 1.0
    rng,            \* what the random source draws: multiples of rng.grain lattice
                    \* steps, and the angles of rng.angles
    k_abort,        \* BlueNoiseIterator.k_abort
    bggrid,         \* BackgroundGrid: data, min_dst_sqr, cell_count, cell_multiplicators
    samples,        \* BlueNoiseIterator.samples
    active,         \* BlueNoiseIterator.active
    active_idx,     \* BlueNoiseIterator.active_idx (0-based)
    next_active,    \* BlueNoiseIterator.next_active
    pc,             \* where the caller / the running next() is
    attempt,        \* iterations of `for _ in 0..self.k_abort` done for the current entry
    current_id,     \* local current_id of the running next()
    ins,            \* the last call of BackgroundGrid::insert: its argument and result
    ret,            \* what the last finished next() returned: "Some" or "None"
    yielded         \* the points the caller has received, in order

vars == <<dimensions, min_distance, unit, rng, k_abort, bggrid, samples, active,
          active_idx, next_active, pc, attempt, current_id, ins, ret, yielded>>

-----------------------------------------------------------------------------
(* Bounds of the checked instances.                                        *)

\* k_abort is drawn from 0..MaxK
MaxK == 2
\* the extent of a 1-dimensional domain is drawn from -1..MaxExtent
MaxExtent == 7

-----------------------------------------------------------------------------
(* Arithmetic helpers.                                                     *)

RECURSIVE SeqSum(_), SeqProd(_)
SeqSum(s) == IF s = <<>> THEN 0 ELSE Head(s) + SeqSum(Tail(s))
SeqProd(s) == IF s = <<>> THEN 1 ELSE Head(s) * SeqProd(Tail(s))

Min2(a, b) == IF a <= b THEN a ELSE b

\* floor(a * sqrt(d) / b) for a >= 0, b > 0, d >= 1: the f64 -> usize cast
\* truncates, and the operand is never negative where the code casts.
FloorMulSqrt(a, d, b) ==
    CHOOSE k \in 0..(a * d) :
        /\ k * k * b * b <= a * a * d
        /\ (k + 1) * (k + 1) * b * b > a * a * d

\* ceil(a * sqrt(d) / b) as usize for b > 0, d >= 0; a value <= 0 casts to 0.
CeilMulSqrt(a, d, b) ==
    IF a <= 0 \/ d = 0 THEN 0
    ELSE CHOOSE k \in 1..(a * d + 1) :
            /\ k * k * b * b >= a * a * d
            /\ (k - 1) * (k - 1) * b * b < a * a * d

-----------------------------------------------------------------------------
(* BackgroundGrid                                                          *)

\* BackgroundGrid::new after its assertion: cell_size = min_distance / sqrt(D)
\* is kept as the pair (min_distance, D) it is computed from.
GridNew(dims, md) ==
    LET D == Len(dims)
        cc == [i \in 1..D |-> CeilMulSqrt(dims[i], D, md)]
        data_size == SeqProd(cc)
    IN [ data |-> [i \in 0..(data_size - 1) |-> 0],
         min_dst_sqr |-> md * md,
         cell_count |-> cc,
         cell_multiplicators |-> [i \in 1..D |-> SeqProd(SubSeq(cc, 1, i - 1))] ]

\* BackgroundGrid::dst_sqr
dst_sqr(x, y) == SeqSum([i \in 1..Min2(Len(x), Len(y)) |-> (x[i] - y[i]) * (x[i] - y[i])])

\* mutant of calc_idx: the cell_multiplicators are left out
calc_idxNoMultiplicators(g, cell_id) ==
    IF Len(cell_id) = 0 THEN -1 ELSE SeqSum(cell_id)

\* BackgroundGrid::calc_idx; cell_id[0] of an empty cell_id panics (-1 here).
calc_idx(g, cell_id) ==
    IF Len(cell_id) = 0 THEN -1
    ELSE cell_id[1]
         + SeqSum([i \in 1..(Min2(Len(cell_id), Len(g.cell_multiplicators)) - 1) |->
                     g.cell_multiplicators[i + 1] * cell_id[i + 1]])

\* mutant of OutOfBounds: the upper bound taken inclusive
OutOfBoundsUpperInclusive(dims, p) ==
    \E i \in 1..Min2(Len(p), Len(dims)) : p[i] < 0 \/ p[i] > dims[i]

\* the domain check at the head of insert
OutOfBounds(dims, p) ==
    \E i \in 1..Min2(Len(p), Len(dims)) : p[i] < 0 \/ p[i] >= dims[i]

\* cell_id of insert: (x / cell_size) as usize
CellId(md, p) == [i \in 1..Len(p) |-> FloorMulSqrt(p[i], Len(p), md)]

\* cell_offs of insert: (min_dst_sqr / cell_size).ceil() as usize, on the f64
\* values: (md/unit)^2 / ((md/unit) / sqrt(D)) = md * sqrt(D) / unit
CellOffs(md, u, D) == CeilMulSqrt(md, D, u)

\* saturating_sub
SatSub(a, b) == IF a >= b THEN a - b ELSE 0

MinCell(cell_id, offs) == [i \in 1..Len(cell_id) |-> SatSub(cell_id[i], offs)]
MaxCell(cell_id, offs, cc) ==
    [i \in 1..Len(cell_id) |-> Min2(cell_id[i] + offs, cc[i] - 1)]

\* mutant of OdoStep: an axis that overflows is not reset to min_cell
RECURSIVE OdoStepNoReset(_, _, _, _)
OdoStepNoReset(indices, lo, hi, i) ==
    IF i > Len(indices) THEN indices
    ELSE IF indices[i] = hi[i]
         THEN OdoStepNoReset(indices, lo, hi, i + 1)
         ELSE [indices EXCEPT ![i] = indices[i] + 1]

\* "iterate indices": the odometer step of the scan loop
RECURSIVE OdoStep(_, _, _, _)
OdoStep(indices, lo, hi, i) ==
    IF i > Len(indices) THEN indices
    ELSE IF indices[i] = hi[i]
         THEN OdoStep([indices EXCEPT ![i] = lo[i]], lo, hi, i + 1)
         ELSE [indices EXCEPT ![i] = indices[i] + 1]

\* the cells the scan loop visits when no cell makes it return early
RECURSIVE ScanCells(_, _, _)
ScanCells(indices, lo, hi) ==
    IF indices = hi THEN <<indices>>
    ELSE <<indices>> \o ScanCells(OdoStep(indices, lo, hi, 1), lo, hi)

\* mutant of CellConflict: a stored sample equal to the candidate is passed over
CellConflictOtherPoint(g, smp, p, indices) ==
    LET other_id == g.data[calc_idx(g, indices)]
    IN /\ other_id # 0
       /\ smp[other_id] # p
       /\ dst_sqr(p, smp[other_id]) < g.min_dst_sqr

\* the test the loop makes on one visited cell: TRUE when it returns Err
CellConflict(g, smp, p, indices) ==
    LET other_id == g.data[calc_idx(g, indices)]
    IN other_id # 0 /\ dst_sqr(p, smp[other_id]) < g.min_dst_sqr

\* mutant of InsertScan: the candidate is pushed to the store before the scan
InsertScanPushesFirst(g, smp, p, cell_id, lo, hi) ==
    LET samp_idx == calc_idx(g, cell_id)
        cells == ScanCells(lo, lo, hi)
    IN IF \E j \in 1..Len(cells) : CellConflict(g, smp, p, cells[j])
       THEN [ret |-> 0, grid |-> g, samples |-> Append(smp, p)]
       ELSE [ret |-> Len(smp) + 1,
             grid |-> [g EXCEPT !.data[samp_idx] = Len(smp) + 1],
             samples |-> Append(smp, p)]

\* the scan loop of insert and what follows it, for the candidate p of cell
\* cell_id and the window [lo, hi]
InsertScan(g, smp, p, cell_id, lo, hi) ==
    LET samp_idx == calc_idx(g, cell_id)
        cells == ScanCells(lo, lo, hi)
    IN IF samp_idx \notin DOMAIN g.data
          \/ \E j \in 1..Len(cells) : calc_idx(g, cells[j]) \notin DOMAIN g.data
       THEN [ret |-> -1, grid |-> g, samples |-> smp]
       ELSE IF \E j \in 1..Len(cells) : CellConflict(g, smp, p, cells[j])
       THEN [ret |-> 0, grid |-> g, samples |-> smp]
       ELSE [ret |-> Len(smp) + 1,
             grid |-> [g EXCEPT !.data[samp_idx] = Len(smp) + 1],
             samples |-> Append(smp, p)]

\* BackgroundGrid::insert.  ret: 0 for Err(()), the new id for Ok, -1 for a
\* panic (an index outside a vector).  cell_id, cell_offs, min_cell and
\* max_cell are bound once, as the code's let bindings are.
Insert(g, dims, md, u, smp, p) ==
    IF OutOfBounds(dims, p)
    THEN [ret |-> 0, grid |-> g, samples |-> smp]
    ELSE CHOOSE res \in
            UNION { UNION { { InsertScan(g, smp, p, cell_id, min_cell, max_cell) :
                                min_cell \in {MinCell(cell_id, cell_offs)},
                                max_cell \in {MaxCell(cell_id, cell_offs, g.cell_count)} } :
                            cell_offs \in {CellOffs(md, u, Len(dims))} } :
                    cell_id \in {CellId(md, p)} } : TRUE

-----------------------------------------------------------------------------
(* Hyperspherical offset sampler                                           *)

\* Angles of [0, 2*pi) with rational cosine c/h and sine s/h.
Angles ==
    { [c |-> 1, s |-> 0, h |-> 1], [c |-> 0, s |-> 1, h |-> 1],
      [c |-> -1, s |-> 0, h |-> 1], [c |-> 0, s |-> -1, h |-> 1] }
    \cup { [c |-> x, s |-> y, h |-> 5] : x \in {3, -3}, y \in {4, -4} }
    \cup { [c |-> x, s |-> y, h |-> 5] : x \in {4, -4}, y \in {3, -3} }

\* polar_to_cartesian: coordinate i (0-based) is
\* radius * sin(a_0) * ... * sin(a_{i-1}) * (cos(a_i), or 1 when there is no a_i),
\* given as a fraction num/den.
polar_to_cartesian(radius, angles) ==
    [i \in 1..(Len(angles) + 1) |->
        [ num |-> radius
                  * SeqProd([j \in 1..(i - 1) |-> angles[j].s])
                  * (IF i <= Len(angles) THEN angles[i].c ELSE 1),
          den |-> SeqProd([j \in 1..(i - 1) |-> angles[j].h])
                  * (IF i <= Len(angles) THEN angles[i].h ELSE 1) ]]

OnLattice(offs, gr) == \A i \in 1..Len(offs) : offs[i].num % (offs[i].den * gr) = 0

\* sequences of n angles of A
RECURSIVE AngleSeqs(_, _)
AngleSeqs(n, A) ==
    IF n <= 0 THEN {<<>>}
    ELSE {Append(a, x) : a \in AngleSeqs(n - 1, A), x \in A}

\* mutant of Radii: the range taken closed
RadiiClosed(md, gr) == {r \in md..(2 * md) : r % gr = 0}

\* rng.gen_range(self.min_distance..2_f64 * self.min_distance)
Radii(md, gr) == {r \in md..(2 * md - 1) : r % gr = 0}

\* mutant of Candidate: the offset is subtracted
CandidateSubtracts(cur, radius, angles) ==
    LET offs == polar_to_cartesian(radius, angles)
    IN [i \in 1..Min2(Len(offs), Len(cur)) |-> cur[i] - offs[i].num \div offs[i].den]

\* samp of next(): current_samp + samp_offs
Candidate(cur, radius, angles) ==
    LET offs == polar_to_cartesian(radius, angles)
    IN [i \in 1..Min2(Len(offs), Len(cur)) |-> cur[i] + offs[i].num \div offs[i].den]

-----------------------------------------------------------------------------
(* The calls of the public API that are checked.                           *)

Call(dims, md, u, k, r) ==
    [dimensions |-> dims, min_distance |-> md, unit |-> u, k_abort |-> k, rng |-> r]

\* every lattice point, radius and angle of the table
FullRng == [grain |-> 1, angles |-> Angles]

Calls ==
    \* one axis, min_distance 2.0 and 0.5
    { Call(<<e>>, 2, u, k, FullRng) : e \in (-1)..MaxExtent, u \in {1, 4}, k \in 0..MaxK }
    \* two axes: 1.2 x 0.1 with min_distance 0.5, 1.2 x 1.2 with min_distance 1.0
    \cup { Call(<<12, 1>>, 5, 10, k, FullRng) : k \in {0, MaxK} }
    \cup { Call(<<6, 6>>, 5, 5, k, FullRng) : k \in {0, MaxK} }
    \* three axes: 1.2 x 0.2 x 0.2 with min_distance 1.0
    \cup { Call(<<6, 1, 1>>, 5, 5, k, FullRng) : k \in {0, MaxK} }
    \* no axis, a degenerate axis, and min_distance <= 0
    \cup { Call(d, 2, 1, k, FullRng) : d \in {<<>>, <<3, 0>>}, k \in 0..MaxK }
    \cup { Call(<<4>>, md, 1, k, FullRng) : md \in {0, -1}, k \in 0..MaxK }

\* the calls of the specification with fairness
FairCalls ==
    { Call(<<e>>, 2, u, k, FullRng) : e \in (-1)..MaxExtent, u \in {1, 4}, k \in 0..MaxK }
    \cup { Call(<<8, 1>>, 5, 10, k, FullRng) : k \in {0, 1} }

\* the call of tests::sanity_nd: min_distance 3.0, k_abort 30, extents of
\* [15, 25); the seed and the radius are drawn as multiples of 5.0 and the
\* angle from {0, pi}
SanityCalls ==
    { Call(<<15, e>>, 3, 1, 30, [grain |-> 5, angles |-> {a \in Angles : a.s = 0}]) :
        e \in {15, 20} }

NoGrid == [data |-> <<>>, min_dst_sqr |-> 0, cell_count |-> <<>>, cell_multiplicators |-> <<>>]
NoInsert == [pos |-> <<>>, ret |-> 0]

InitCalls(C) ==
    /\ \E c \in C :
        /\ dimensions = c.dimensions
        /\ min_distance = c.min_distance
        /\ unit = c.unit
        /\ rng = c.rng
        /\ k_abort = c.k_abort
    /\ bggrid = NoGrid
    /\ samples = <<>>
    /\ active = <<>>
    /\ active_idx = 0
    /\ next_active = <<>>
    /\ pc = "call"
    /\ attempt = 0
    /\ current_id = 0
    /\ ins = NoInsert
    /\ ret = "-"
    /\ yielded = <<>>

Init == InitCalls(Calls)
FairInit == InitCalls(FairCalls)
SanityInit == InitCalls(SanityCalls)

-----------------------------------------------------------------------------
(* BlueNoiseIterator                                                       *)

\* the points of [0, dims[1]) x ... x [0, dims[D]) on the lattice of grain gr
\* that the seed is drawn from: rng.gen_range(0_f64..*x) on each axis
RECURSIVE DomainPoints(_, _)
DomainPoints(dims, gr) ==
    IF dims = <<>> THEN {<<>>}
    ELSE {<<x>> \o p : x \in {y \in 0..(Head(dims) - 1) : y % gr = 0},
                        p \in DomainPoints(Tail(dims), gr)}

\* mutant of LoopRuns: the range taken closed, 0..=k_abort
LoopRunsInclusive(att, k) == att <= k

\* mutant of Yielded: the id used as a 0-based index
YieldedOffByOne(smp, new_samp_id) == smp[new_samp_id - 1]

\* "for _ in 0..self.k_abort": the loop body runs once more after att iterations
LoopRuns(att, k) == att < k

\* "Some(self.samples[new_samp_id - 1].clone())": ids are 1-based
Yielded(smp, new_samp_id) == smp[new_samp_id]

\* blue_noise_iter / BlueNoiseIterator::new / BackgroundGrid::new
New ==
    /\ pc = "call"
    /\ IF min_distance > 0
       THEN /\ bggrid' = GridNew(dimensions, min_distance)
            /\ pc' = "ready"
       ELSE /\ bggrid' = bggrid
            /\ pc' = "new_panic"
    /\ UNCHANGED <<dimensions, min_distance, unit, rng, k_abort, samples, active,
                   active_idx, next_active, attempt, current_id, ins, ret, yielded>>

Panic ==
    /\ pc' = "next_panic"
    /\ UNCHANGED <<bggrid, samples, active, active_idx, next_active, attempt,
                   current_id, ins, ret, yielded>>

\* mutant of Select: next_active is not emptied when the lists are swapped
SelectKeepsNextActive(idx) ==
    LET swap == idx >= Len(active)
        act == IF swap THEN next_active ELSE active
        i == IF swap THEN 0 ELSE idx
    IN /\ active' = act
       /\ active_idx' = i
       /\ next_active' = next_active
       /\ attempt' = 0
       /\ IF act = <<>>
          THEN /\ ret' = "None"
               /\ pc' = "ready"
               /\ current_id' = current_id
          ELSE /\ ret' = ret
               /\ pc' = "loop"
               /\ current_id' = act[i + 1]
       /\ UNCHANGED <<bggrid, samples, ins, yielded>>

\* mutant of Select: at the end of a round the end of the sequence is
\* reported without looking at next_active
SelectEndsAtRoundEnd(idx) ==
    LET done == idx >= Len(active)
    IN /\ active' = active
       /\ active_idx' = idx
       /\ next_active' = next_active
       /\ attempt' = 0
       /\ IF done
          THEN /\ ret' = "None"
               /\ pc' = "ready"
               /\ current_id' = current_id
          ELSE /\ ret' = ret
               /\ pc' = "loop"
               /\ current_id' = active[idx + 1]
       /\ UNCHANGED <<bggrid, samples, ins, yielded>>

\* next() from "if self.active_idx >= self.active.len()" to the head of the
\* for loop, entered with the cursor at idx
Select(idx) ==
    LET swap == idx >= Len(active)
        act == IF swap THEN next_active ELSE active
        i == IF swap THEN 0 ELSE idx
    IN /\ active' = act
       /\ active_idx' = i
       /\ next_active' = IF swap THEN <<>> ELSE next_active
       /\ attempt' = 0
       /\ IF act = <<>>
          THEN /\ ret' = "None"
               /\ pc' = "ready"
               /\ current_id' = current_id
          ELSE /\ ret' = ret
               /\ pc' = "loop"
               /\ current_id' = act[i + 1]
       /\ UNCHANGED <<bggrid, samples, ins, yielded>>

\* the first-sample branch of next()
FirstSample ==
    IF \E i \in 1..Len(dimensions) : dimensions[i] <= 0
    THEN Panic      \* gen_range of an empty range
    ELSE \E initial_sample \in DomainPoints(dimensions, rng.grain) :
            \E r \in {Insert(bggrid, dimensions, min_distance, unit, samples, initial_sample)} :
               IF r.ret <= 0
               THEN Panic       \* unwrap of Err, or an index outside a vector
               ELSE /\ bggrid' = r.grid
                    /\ samples' = r.samples
                    /\ ins' = [pos |-> initial_sample, ret |-> r.ret]
                    /\ active' = Append(active, r.ret)
                    /\ yielded' = Append(yielded, initial_sample)
                    /\ ret' = "Some"
                    /\ pc' = "ready"
                    /\ UNCHANGED <<active_idx, next_active, attempt, current_id>>

\* a call of next() by the consumer
NextCall ==
    /\ pc = "ready"
    /\ IF samples = <<>> THEN FirstSample ELSE Select(active_idx)
    /\ UNCHANGED <<dimensions, min_distance, unit, rng, k_abort>>

\* mutant of Attempt: the cursor stays where it is when a candidate is accepted
AttemptKeepsCursor ==
    /\ pc = "loop"
    /\ LoopRuns(attempt, k_abort)
    /\ \E radius \in Radii(min_distance, rng.grain),
          angles \in AngleSeqs(Len(dimensions) - 1, rng.angles) :
        /\ OnLattice(polar_to_cartesian(radius, angles), rng.grain)
        /\ \E samp \in {Candidate(samples[current_id], radius, angles)} :
           \E r \in {Insert(bggrid, dimensions, min_distance, unit, samples, samp)} :
              IF r.ret < 0 THEN Panic
              ELSE /\ ins' = [pos |-> samp, ret |-> r.ret]
                   /\ bggrid' = r.grid
                   /\ samples' = r.samples
                   /\ attempt' = attempt + 1
                   /\ IF r.ret > 0
                      THEN /\ next_active' = next_active \o <<current_id, r.ret>>
                           /\ yielded' = Append(yielded, Yielded(r.samples, r.ret))
                           /\ ret' = "Some"
                           /\ pc' = "ready"
                      ELSE UNCHANGED <<next_active, yielded, ret, pc>>
                   /\ UNCHANGED <<active, active_idx, current_id>>
    /\ UNCHANGED <<dimensions, min_distance, unit, rng, k_abort>>

\* one iteration of "for _ in 0..self.k_abort"
Attempt ==
    /\ pc = "loop"
    /\ LoopRuns(attempt, k_abort)
    /\ \E radius \in Radii(min_distance, rng.grain),
       angles \in AngleSeqs(Len(dimensions) - 1, rng.angles) :
        /\ OnLattice(polar_to_cartesian(radius, angles), rng.grain)
        /\ \E samp \in {Candidate(samples[current_id], radius, angles)} :
           \E r \in {Insert(bggrid, dimensions, min_distance, unit, samples, samp)} :
              IF r.ret < 0 THEN Panic
              ELSE /\ ins' = [pos |-> samp, ret |-> r.ret]
                   /\ bggrid' = r.grid
                   /\ samples' = r.samples
                   /\ IF r.ret > 0
                      THEN /\ next_active' = next_active \o <<current_id, r.ret>>
                           /\ active_idx' = active_idx + 1
                           /\ yielded' = Append(yielded, Yielded(r.samples, r.ret))
                           /\ ret' = "Some"
                           /\ pc' = "ready"
                           /\ attempt' = attempt + 1
                      ELSE /\ attempt' = attempt + 1
                           /\ UNCHANGED <<next_active, active_idx, yielded, ret, pc>>
                   /\ UNCHANGED <<active, current_id>>
    /\ UNCHANGED <<dimensions, min_distance, unit, rng, k_abort>>

\* mutant of LoopExit: the entry whose attempts ran out is queued again
LoopExitRequeues ==
    /\ pc = "loop"
    /\ ~LoopRuns(attempt, k_abort)
    /\ LET queued == Append(next_active, current_id)
           swap == active_idx + 1 >= Len(active)
           act == IF swap THEN queued ELSE active
           i == IF swap THEN 0 ELSE active_idx + 1
       IN /\ active' = act
          /\ active_idx' = i
          /\ next_active' = IF swap THEN <<>> ELSE queued
          /\ attempt' = 0
          /\ current_id' = act[i + 1]
          /\ pc' = "loop"
    /\ UNCHANGED <<bggrid, samples, ins, ret, yielded>>
    /\ UNCHANGED <<dimensions, min_distance, unit, rng, k_abort>>

\* mutant of LoopExit: the cursor is advanced past the next entry as well
LoopExitSkipsNext ==
    /\ pc = "loop"
    /\ ~LoopRuns(attempt, k_abort)
    /\ Select(active_idx + 2)
    /\ UNCHANGED <<dimensions, min_distance, unit, rng, k_abort>>

\* mutant of LoopExit: the cursor is not advanced before the recursive call
LoopExitNoAdvance ==
    /\ pc = "loop"
    /\ ~LoopRuns(attempt, k_abort)
    /\ Select(active_idx)
    /\ UNCHANGED <<dimensions, min_distance, unit, rng, k_abort>>

\* the loop ran out: "self.active_idx += 1; self.next()"
LoopExit ==
    /\ pc = "loop"
    /\ ~LoopRuns(attempt, k_abort)
    /\ Select(active_idx + 1)
    /\ UNCHANGED <<dimensions, min_distance, unit, rng, k_abort>>

Next == New \/ NextCall \/ Attempt \/ LoopExit

Spec == Init /\ [][Next]_vars

\* blue_noise pulls until next() returns None, and a running next() runs on.
FairSpec == FairInit /\ [][Next]_vars /\ WF_vars(Next)

\* blue_noise as tests::sanity_nd calls it
SanitySpec == SanityInit /\ [][Next]_vars

-----------------------------------------------------------------------------
(* BackgroundGrid used on its own, as tests::grid_corners uses it: a grid   *)
(* is built and insert is called with any sequence of points.              *)

\* the grids: one axis with min_distance 2.0 and 0.5, two axes 1.2 x 0.1
\* with min_distance 0.5 and 1.2 x 1.2 with min_distance 1.0
GridCalls ==
    { Call(<<e>>, 2, u, 0, FullRng) : e \in 1..MaxExtent, u \in {1, 4} }
    \cup { Call(<<12, 1>>, 5, 10, 0, FullRng), Call(<<6, 6>>, 5, 5, 0, FullRng) }

GridInit == InitCalls(GridCalls)

\* the arguments of insert: the lattice points of the domain, and those one
\* step before 0 and at the extent on each axis
RECURSIVE ProbePoints(_, _)
ProbePoints(dims, gr) ==
    IF dims = <<>> THEN {<<>>}
    ELSE {<<x>> \o p : x \in {y \in (-gr)..Head(dims) : y % gr = 0},
                        p \in ProbePoints(Tail(dims), gr)}

\* one call grid.insert(p, &mut samples)
InsertCall ==
    /\ pc = "ready"
    /\ \E p \in ProbePoints(dimensions, rng.grain) :
        \E r \in {Insert(bggrid, dimensions, min_distance, unit, samples, p)} :
           IF r.ret < 0
           THEN /\ pc' = "next_panic"
                /\ UNCHANGED <<bggrid, samples, ins>>
           ELSE /\ ins' = [pos |-> p, ret |-> r.ret]
                /\ bggrid' = r.grid
                /\ samples' = r.samples
                /\ pc' = pc
    /\ UNCHANGED <<dimensions, min_distance, unit, rng, k_abort, active, active_idx,
                   next_active, attempt, current_id, ret, yielded>>

GridNext == New \/ InsertCall

GridSpec == GridInit /\ [][GridNext]_vars

-----------------------------------------------------------------------------
(* Vocabulary of the properties.                                           *)

Constructed == pc \in {"ready", "loop", "next_panic"}
\* between two calls of next()
AtBoundary == pc = "ready"
\* the last next() reported the end of the sequence
Ended == pc = "ready" /\ ret = "None"
ValidArgs ==
    /\ min_distance > 0
    /\ dimensions # <<>>
    /\ \A i \in 1..Len(dimensions) : dimensions[i] > 0
InDomain(p) ==
    /\ Len(p) = Len(dimensions)
    /\ \A i \in 1..Len(p) : 0 <= p[i] /\ p[i] < dimensions[i]
MdSqr == min_distance * min_distance

-----------------------------------------------------------------------------
\* C1  No-collision: in every reachable state, whatever min_distance > 0
\* (values below 1.0 included), the dimension count and k_abort, any two
\* distinct stored points are at Euclidean distance >= min_distance.
NoCollision ==
    \A i, j \in 1..Len(samples) :
        i # j => dst_sqr(samples[i], samples[j]) >= MdSqr

\* C2  Domain containment: every stored or yielded point has every
\* coordinate in [0, extent); insert rejects every candidate with a
\* coordinate < 0 or >= its extent (a coordinate equal to the extent
\* included), and an in-domain candidate is rejected only for a stored
\* sample closer than min_distance, never for a coordinate that is 0.
DomainContainment ==
    /\ \A i \in 1..Len(samples) : InDomain(samples[i])
    /\ \A i \in 1..Len(yielded) : InDomain(yielded[i])
    /\ ins.pos # <<>> /\ OutOfBounds(dimensions, ins.pos) => ins.ret = 0
    /\ ins.pos # <<>> /\ InDomain(ins.pos) /\ ins.ret = 0 =>
            \E i \in 1..Len(samples) : dst_sqr(samples[i], ins.pos) < MdSqr

\* C2 witness: a point with a coordinate 0 is stored, and the last insert
\* rejected a candidate with a coordinate equal to its extent.
DomainContainmentWitness ==
    /\ \E i \in 1..Len(samples) : \E a \in 1..Len(dimensions) : samples[i][a] = 0
    /\ ins.ret = 0
    /\ \E a \in 1..Len(ins.pos) : ins.pos[a] = dimensions[a]

\* C3  Parent-proximity: every yielded point except the first has a point
\* yielded before it at distance >= min_distance and < 2 * min_distance.
ParentProximity ==
    \A j \in 2..Len(yielded) :
        \E i \in 1..(j - 1) :
            /\ dst_sqr(yielded[i], yielded[j]) >= MdSqr
            /\ dst_sqr(yielded[i], yielded[j]) < 4 * MdSqr

\* C3 witness: in two dimensions a child was yielded off its parent's axes.
ParentProximityWitness ==
    /\ Len(dimensions) = 2
    /\ Len(yielded) >= 2
    /\ yielded[2][1] # yielded[1][1]
    /\ yielded[2][2] # yielded[1][2]

\* C4  With k_abort = 0 and valid arguments the store never holds more than
\* the seed, insert is called for the seed only, the pull after the seed
\* goes from the head of the loop straight to end-of-sequence, and at the
\* end exactly one point has been yielded.
KAbortZeroInv ==
    k_abort = 0 /\ ValidArgs =>
        /\ Len(samples) <= 1
        /\ Len(samples) = 1 => ins = [pos |-> samples[1], ret |-> 1]
        /\ pc = "loop" => attempt = 0 /\ active = <<1>> /\ next_active = <<>>
        /\ Ended => Len(yielded) = 1 /\ yielded = samples
KAbortZeroStep ==
    k_abort = 0 /\ ValidArgs /\ pc = "loop" => Ended' /\ samples' = samples
\* C4  as a whole: the invariant, and the step from the head of the loop
KAbortZero == [] KAbortZeroInv /\ [][KAbortZeroStep]_vars

\* C4 witness: k_abort = 0 and the generator has ended.
KAbortZeroWitness == k_abort = 0 /\ ValidArgs /\ Ended /\ Len(dimensions) >= 2

\* C5  Construction fails (no generator is returned) when min_distance <= 0,
\* when there is no extent, or when an extent is <= 0.
ConstructionRejectsInvalid == ~ValidArgs => pc \in {"call", "new_panic"}

\* C6  Once a generator is returned no pull faults: the seed gets id 1, the
\* ids in active and next_active are ids of stored samples, and the cursor
\* is inside active at every pull boundary.
PullsNeverFault ==
    Constructed =>
        /\ pc # "next_panic"
        /\ \A i \in 1..Len(active) : active[i] \in 1..Len(samples)
        /\ \A i \in 1..Len(next_active) : next_active[i] \in 1..Len(samples)
        /\ AtBoundary => 0 <= active_idx /\ active_idx <= Len(active)
        /\ Len(samples) >= 1 => bggrid.data[calc_idx(bggrid, CellId(min_distance, samples[1]))] = 1

\* C7  Termination: with valid arguments every pull that entered the loop
\* returns, repeated pulling reaches the end of the sequence and stays
\* there, and the number of yielded points never exceeds the number of
\* grid cells.
Termination ==
    /\ [](ValidArgs /\ pc = "loop" => <>(pc = "ready"))
    /\ (ValidArgs => <>[]Ended)
    /\ [](ValidArgs /\ Constructed => Len(yielded) <= SeqProd(bggrid.cell_count))

\* C7 witness: the generator ended after it filled every cell of a grid of
\* at least three cells.
TerminationWitness ==
    /\ ValidArgs
    /\ Ended
    /\ Len(yielded) >= 3
    /\ Len(yielded) = SeqProd(bggrid.cell_count)

\* C8  Terminal is absorbing: end-of-sequence is reported only with active
\* and next_active both empty, and once it was reported every later step
\* reports it again and leaves the store and the grid as they are.
TerminalAbsorbing ==
    /\ [](Ended => active = <<>> /\ next_active = <<>>)
    /\ [][Ended => Ended' /\ samples' = samples /\ bggrid' = bggrid]_vars

\* C8 witness: the end was reported after at least two points.
TerminalAbsorbingWitness == Ended /\ Len(samples) >= 2 /\ active = <<>>

\* C9  Generation order and laziness: between pulls the yielded points are
\* the store, in order; a step that yields appends exactly one point, the
\* one just stored, and returns Some; a step that yields nothing stores
\* nothing, and a pull that reports the end yields nothing.
GenerationOrderStep ==
    /\ IF yielded' # yielded
       THEN /\ Len(samples') = Len(samples) + 1
            /\ yielded' = Append(yielded, samples'[Len(samples')])
            /\ pc' = "ready" /\ ret' = "Some"
       ELSE samples' = samples
    /\ pc' = "ready" /\ ret' = "None" => yielded' = yielded
\* C9  as a whole: the order between pulls, and the effect of each step
GenerationOrder ==
    /\ [](AtBoundary => yielded = samples)
    /\ [][GenerationOrderStep]_vars

\* C9 witness: the generator was drained and yielded at least three points.
GenerationOrderWitness == Ended /\ Len(yielded) >= 3

\* the distance of samples[i] to its nearest other sample is >= min_distance
\* and < 2 * min_distance
NearestInRange(i) ==
    /\ \A j \in 1..Len(samples) : j # i => dst_sqr(samples[i], samples[j]) >= MdSqr
    /\ \E j \in 1..Len(samples) : j # i /\ dst_sqr(samples[i], samples[j]) < 4 * MdSqr

\* C10  What tests::sanity_nd asserts of every set blue_noise returns for
\* min_distance 3, k_abort 30 and extents of [15, 25): it has at least two
\* points, and every point, the first included, has its nearest other point
\* at a distance >= min_distance and < 2 * min_distance.
SanityCoverage ==
    Ended => /\ Len(samples) >= 2
             /\ \A i \in 1..Len(samples) : NearestInRange(i)

\* the store as it was when the last insert was called
StoreBefore == IF ins.ret > 0 THEN SubSeq(samples, 1, Len(samples) - 1) ELSE samples

\* the last insert was called with an in-domain point on a grid of valid
\* arguments
InsertedInDomain == ValidArgs /\ ins.pos # <<>> /\ InDomain(ins.pos)

\* C11  Window sufficiency: the window insert scans around the candidate's
\* cell (cell_offs cells to each side, clamped to the grid) contains the
\* home cell of every stored sample closer than min_distance to the
\* candidate, and insert accepts an in-domain candidate exactly when no
\* stored sample is closer than min_distance.
WindowSufficiency ==
    InsertedInDomain =>
        LET cell_id == CellId(min_distance, ins.pos)
            offs == CellOffs(min_distance, unit, Len(dimensions))
            lo == MinCell(cell_id, offs)
            hi == MaxCell(cell_id, offs, bggrid.cell_count)
            near == {j \in 1..Len(StoreBefore) :
                        dst_sqr(StoreBefore[j], ins.pos) < MdSqr}
        IN /\ \A j \in near : \A a \in 1..Len(cell_id) :
                  /\ lo[a] <= CellId(min_distance, StoreBefore[j])[a]
                  /\ CellId(min_distance, StoreBefore[j])[a] <= hi[a]
           /\ ins.ret > 0 <=> near = {}

\* the cells of the grid that a step changes
ChangedCells == {i \in DOMAIN bggrid.data : bggrid'.data[i] # bggrid.data[i]}

\* C12  Frame of insert: a call of insert that rejects (out of bounds or
\* distance violation) leaves the store and the grid as they are; a call
\* that accepts appends exactly the candidate to the store, changes exactly
\* one cell, the candidate's home cell, from 0 to the new id, and returns
\* that id, the new length of the store.
InsertFrameStep ==
    pc = "ready" /\ pc' = "ready" =>
        IF ins'.ret = 0
        THEN samples' = samples /\ bggrid' = bggrid
        ELSE /\ samples' = Append(samples, ins'.pos)
             /\ ins'.ret = Len(samples) + 1
             /\ ChangedCells = {calc_idx(bggrid, CellId(min_distance, ins'.pos))}
             /\ \A i \in ChangedCells : bggrid.data[i] = 0 /\ bggrid'.data[i] = ins'.ret
             /\ bggrid' = [bggrid EXCEPT !.data = bggrid'.data]
\* C12  for every call of insert
InsertFrame == [][InsertFrameStep]_vars

\* C12 witness: three inserts were accepted, and the last call rejected an
\* in-domain point.
InsertFrameWitness ==
    /\ Len(dimensions) = 2
    /\ Len(samples) = 3
    /\ ins.ret = 0
    /\ InsertedInDomain

\* the home cell of a stored point, as an index of the cell array
HomeIdx(p) == calc_idx(bggrid, CellId(min_distance, p))

\* C13  Grid/store consistency: no two stored samples have the same home
\* cell, every non-empty cell holds the id of a stored sample whose point
\* lies in that cell, every stored sample's home cell holds its id, and
\* there are as many non-empty cells as stored samples.
GridStoreConsistency ==
    Constructed /\ ValidArgs =>
        /\ \A i, j \in 1..Len(samples) :
              i # j => CellId(min_distance, samples[i]) # CellId(min_distance, samples[j])
        /\ \A c \in DOMAIN bggrid.data :
              bggrid.data[c] # 0 =>
                  /\ bggrid.data[c] \in 1..Len(samples)
                  /\ HomeIdx(samples[bggrid.data[c]]) = c
        /\ \A i \in 1..Len(samples) : bggrid.data[HomeIdx(samples[i])] = i
        /\ Cardinality({c \in DOMAIN bggrid.data : bggrid.data[c] # 0}) = Len(samples)

\* C13 witness: every cell of a grid of two rows and two columns is taken.
GridStoreConsistencyWitness ==
    /\ Len(dimensions) = 2
    /\ bggrid.cell_count = <<2, 2>>
    /\ Len(samples) = 4

\* p is a point of the store
Stored(p) == \E i \in 1..Len(samples) : samples[i] = p

\* C14  Idempotent rejection: a call of insert with a point that is in the
\* store (it was accepted by the call before, or by any earlier call on
\* this grid) is rejected and changes neither the store nor the grid.
IdempotentRejectionStep ==
    pc = "ready" /\ pc' = "ready" /\ Stored(ins'.pos) =>
        ins'.ret = 0 /\ samples' = samples /\ bggrid' = bggrid
\* C14  for every call of insert
IdempotentRejection == [][IdempotentRejectionStep]_vars

\* C14 witness: with two points in the store a point of the store was
\* inserted again and rejected.
IdempotentRejectionWitness ==
    /\ Len(samples) >= 2
    /\ Stored(ins.pos)
    /\ ins.ret = 0

\* the window of the last insert
LastCellId == CellId(min_distance, ins.pos)
LastMinCell == MinCell(LastCellId, CellOffs(min_distance, unit, Len(dimensions)))
LastMaxCell ==
    MaxCell(LastCellId, CellOffs(min_distance, unit, Len(dimensions)), bggrid.cell_count)

\* C15  Odometer scan: the cells the scan loop of insert visits are the
\* cells of the box [min_cell, max_cell], each exactly once, in the order
\* of a mixed-radix counter with axis 0 fastest; the candidate's own cell is
\* among them, none is outside the box, and max_cell is the last one and
\* only the last one.
OdometerScan ==
    InsertedInDomain =>
        LET lo == LastMinCell
            hi == LastMaxCell
            cells == ScanCells(lo, lo, hi)
            width == [a \in 1..Len(lo) |-> hi[a] - lo[a] + 1]
        IN /\ Len(cells) = SeqProd(width)
           /\ \A j \in 1..Len(cells) : \A a \in 1..Len(lo) :
                  lo[a] <= cells[j][a] /\ cells[j][a] <= hi[a]
           /\ \A j, k \in 1..Len(cells) : j # k => cells[j] # cells[k]
           /\ \E j \in 1..Len(cells) : cells[j] = LastCellId
           /\ \A j \in 1..Len(cells) : cells[j] = hi <=> j = Len(cells)
           /\ \A j \in 1..Len(cells) : \A a \in 1..Len(lo) :
                  cells[j][a] =
                      lo[a] + (((j - 1) \div SeqProd(SubSeq(width, 1, a - 1))) % width[a])

\* C15 witness: the last insert scanned a box of two rows and two columns.
OdometerScanWitness ==
    /\ InsertedInDomain
    /\ Len(dimensions) = 2
    /\ LastMinCell = <<0, 0>>
    /\ LastMaxCell = <<1, 1>>
    /\ LastCellId = <<1, 0>>

\* C16  the step that accepts a candidate: the parent id and the new id are
\* appended to next_active in that order, the cursor advances by one, the
\* new point is yielded and the pull returns; the step that rejects one
\* uses up one attempt and leaves the cursor and the lists as they are.
SpawnStep ==
    /\ pc = "loop" /\ samples' # samples =>
          /\ ins'.ret = Len(samples) + 1
          /\ samples' = Append(samples, ins'.pos)
          /\ next_active' = next_active \o <<current_id, ins'.ret>>
          /\ active_idx' = active_idx + 1
          /\ active' = active
          /\ yielded' = Append(yielded, ins'.pos)
          /\ pc' = "ready" /\ ret' = "Some"
    /\ pc = "loop" /\ pc' = "loop" /\ attempt' = attempt + 1 =>
          /\ ins'.ret = 0
          /\ UNCHANGED <<active, active_idx, next_active, current_id, samples, yielded>>

\* C16  at the head of the loop the entry at the cursor is the parent and at
\* most k_abort candidates were drawn for it; next_active is made of pairs
\* (parent, child) whose parents are distinct entries of active behind the
\* cursor: an entry has at most one child per round.
SpawnInv ==
    ValidArgs =>
        /\ pc = "loop" =>
              /\ attempt <= k_abort
              /\ active_idx < Len(active)
              /\ current_id = active[active_idx + 1]
        /\ Len(next_active) % 2 = 0
        /\ \A m \in 1..(Len(next_active) \div 2) :
              /\ \E i \in 1..Min2(active_idx, Len(active)) : active[i] = next_active[2 * m - 1]
              /\ \A n \in 1..(Len(next_active) \div 2) :
                    m # n => next_active[2 * m - 1] # next_active[2 * n - 1]

\* C16  Successful spawn step, as a whole
SuccessfulSpawn == [] SpawnInv /\ [][SpawnStep]_vars

\* C16 witness: a candidate was accepted at its second attempt for the second
\* entry of a round.
SuccessfulSpawnWitness ==
    /\ pc = "ready" /\ ret = "Some"
    /\ attempt = 2
    /\ active_idx = 2
    /\ Len(next_active) >= 2
    /\ next_active[Len(next_active)] = Len(samples)

\* the ids still in the work queue: the entries of active from the cursor on
\* and the entries of next_active
Pending ==
    {active[i] : i \in (active_idx + 1)..Len(active)}
    \cup {next_active[i] : i \in 1..Len(next_active)}

\* C17  the step taken when all k_abort candidates of the entry at the
\* cursor were rejected advances the cursor by one (and starts the next
\* round when it passes the end of active) without queueing the entry;
\* an id of a stored sample that is not in the queue never enters it again.
PermanentDropStep ==
    /\ pc = "loop" /\ attempt >= k_abort =>
          /\ current_id \notin Pending'
          /\ IF active_idx + 1 < Len(active)
             THEN /\ active_idx' = active_idx + 1
                  /\ active' = active
                  /\ next_active' = next_active
             ELSE /\ active_idx' = 0
                  /\ active' = next_active
                  /\ next_active' = <<>>
    /\ \A id \in 1..Len(samples) : id \notin Pending => id \notin Pending'

\* C17  Permanent drop: the step above, and a spawn parent is always taken
\* from the queue, so that a dropped id is never selected again.
PermanentDrop ==
    /\ [](pc = "loop" => current_id \in Pending)
    /\ [][PermanentDropStep]_vars

\* C17 witness: the seed was dropped, and a later round works on its
\* descendants.
PermanentDropWitness ==
    /\ k_abort >= 1
    /\ pc = "loop"
    /\ Len(samples) >= 3
    /\ 1 \notin Pending
    /\ Len(active) >= 2

NoDuplicates(s) == \A i, j \in 1..Len(s) : i # j => s[i] # s[j]

\* C18  In every reachable state neither active nor next_active holds an id
\* twice, no id of active at or after the cursor is in next_active, and
\* next_active is at most twice as long as the number of entries of active
\* behind the cursor.
WorkQueueInv ==
    /\ NoDuplicates(active)
    /\ NoDuplicates(next_active)
    /\ \A i \in (active_idx + 1)..Len(active) :
          \A j \in 1..Len(next_active) : active[i] # next_active[j]
    /\ Len(next_active) <= 2 * active_idx

\* C18 witness: a round of two entries in which both had a child.
WorkQueueInvWitness ==
    /\ Len(active) = 2
    /\ active_idx = 2
    /\ Len(next_active) = 4

\* the sample with this id was accepted by the pull that just returned
JustAccepted(id) == pc = "ready" /\ ret = "Some" /\ Len(samples) = id

\* C19  an id leaves the work queue only in the step taken when all k_abort
\* candidates of that id, the entry at the cursor, were rejected.
DropOnlyExhaustedStep ==
    k_abort >= 1 =>
        \A id \in Pending :
            id \notin Pending' => pc = "loop" /\ current_id = id /\ attempt = k_abort

\* C19  Pulled until the end with k_abort >= 1, every accepted sample, the
\* seed included, becomes the spawn parent at the head of the loop at least
\* once after it was accepted; it leaves the work queue only by using up
\* k_abort rejected candidates; and at the end active and next_active are
\* empty.
EverySampleSelected ==
    /\ \A id \in 1..MaxExtent :
          (k_abort >= 1 /\ JustAccepted(id)) ~> (pc = "loop" /\ current_id = id)
    /\ [][DropOnlyExhaustedStep]_vars
    /\ [](Ended => Pending = {} /\ active = <<>> /\ next_active = <<>>)

\* C19 witness: the generator was drained with k_abort >= 1 and three or
\* more samples.
EverySampleSelectedWitness ==
    /\ k_abort >= 1
    /\ Ended
    /\ Len(samples) >= 3

\* C20  with a single extent, every candidate drawn for a parent lies to
\* the right of it, by at least min_distance and less than 2 * min_distance.
RightwardStep ==
    Len(dimensions) = 1 /\ pc = "loop" /\ attempt' = attempt + 1 =>
        /\ ins'.pos[1] >= samples[current_id][1] + min_distance
        /\ ins'.pos[1] < samples[current_id][1] + 2 * min_distance

\* C20  with a single extent no angle is drawn and the offset is +radius;
\* the seed is the least of the stored and of the yielded points, and
\* every other point is strictly greater.
RightwardInv ==
    Len(dimensions) = 1 =>
        /\ AngleSeqs(Len(dimensions) - 1, rng.angles) = {<<>>}
        /\ \A r \in Radii(min_distance, rng.grain) :
              polar_to_cartesian(r, <<>>) = <<[num |-> r, den |-> 1]>>
        /\ \A i \in 2..Len(samples) : samples[i][1] > samples[1][1]
        /\ \A i \in 2..Len(yielded) : yielded[i][1] > yielded[1][1]

\* C20  One-dimensional domains, as a whole
OneDimRightward == [] RightwardInv /\ [][RightwardStep]_vars

\* C20 witness: a one-dimensional run that started off 0 ended with three
\* or more points.
OneDimRightwardWitness ==
    /\ Len(dimensions) = 1
    /\ Ended
    /\ Len(samples) >= 3
    /\ samples[1][1] > 0

====
